---------------------------- MODULE Spec2Model ----------------------------
(***************************************************************************)
(* Model of main.py of KTU-GG-Alert-v2: the polling loop notify_schedules, *)
(* the command handlers that share its state, and the /delall, /delhistory *)
(* confirmation protocol with its 30-second timer.                         *)
(*                                                                         *)
(* Time is in seconds.  asyncio runs one coroutine at a time, so an action *)
(* is the code between two awaits of one coroutine.                        *)
(***************************************************************************)
EXTENDS Integers, Sequences, FiniteSets, TLC

(***************************************************************************)
(* Bounds of the model.                                                    *)
(***************************************************************************)
MaxTicks == 2
MaxCmds == 1
MaxProc == 1

Chats == {1, 2}
EventIds == {1, 2}
Base == 11667 * 60   \* a whole minute later than one week after time 0

(***************************************************************************)
(* Program constants.                                                      *)
(***************************************************************************)
SleepSec == 60
HourLo == 179 * 60
HourHi == 180 * 60
DayLo == 23 * 3600
DayHi == 24 * 3600
WeekLo == 6 * 86400
WeekHi == 7 * 86400
EventDuration == 3600
UpcomingLimit == 300

Thresholds == {1, 2, 3}   \* 1: 3 hours, 2: 1 day, 3: 1 week
NoStart == -1
EndIter == 0

VARIABLES clock, events, user_ids, user_id_file, admins,
          notified_schedules_hour, notified_schedules_day,
          notified_schedules_week,
          poll, ticks, noti, cmds, lastCmd,
          delivered, dispatched, skippedDue, track,
          confirm_action, confirm_task, tasks,
          evalIn, evalOut, evalPc,
          notiStart, notiLog

ledgerVars == <<notified_schedules_hour, notified_schedules_day,
                notified_schedules_week>>
histVars == <<delivered, dispatched, skippedDue, track>>
confVars == <<confirm_action, confirm_task, tasks>>
evalVars == <<evalIn, evalOut, evalPc>>
notiHist == <<notiStart, notiLog>>
vars == <<clock, events, user_ids, user_id_file, admins, ledgerVars,
          poll, ticks, noti, cmds, lastCmd, histVars, confVars, evalVars, notiHist>>

(***************************************************************************)
(* Pure helpers.                                                           *)
(***************************************************************************)
Min(S) == CHOOSE x \in S : \A y \in S : x <= y

\* str(...).strip().lower() on the metadata values of the model
NormMute(s) ==
  CASE s = " V " -> "v"
    [] s = "TRUE" -> "true"
    [] OTHER -> s

is_muted(ev) == NormMute(ev.mute) \in {"v", "true", "1"}

\* str.strip() on the summaries of the model
Strip(s) ==
  CASE s = "a " -> "a"
    [] s = " a" -> "a"
    [] OTHER -> s

get_event_start_dt(ev) == IF ev.fmt \in {"dateTime", "date"} THEN ev.start ELSE NoStart

\* datetime.fromisoformat and datetime.strptime raise ValueError for a start
\* whose text does not parse (fmt "bad"); get_event_start_dt lets it through
StartRaises(ev) == ev.fmt = "bad"

ensure_end(dt) == dt + EventDuration

\* the end the calendar holds for an event: create_event and patch_event set
\* it to ensure_end of the start
EndOf(ev) == ensure_end(ev.start)

\* strftime('%y%m%d %H%M'): the start to the minute
MinuteOf(dt) == dt \div 60

\* an event of the calendar; fmt tells how its start is given ("dateTime",
\* "date" or "none"), start is the instant the calendar orders and filters by;
\* mute is extendedProperties.private.get("mute", "") and other holds the
\* other entries of extendedProperties.private as <<key, value>> pairs
Absent == [present |-> FALSE, start |-> 0, fmt |-> "none", summary |-> "", mute |-> "",
           other |-> {}]
Ev(s, m, u) == [present |-> TRUE, start |-> s, fmt |-> "dateTime", summary |-> m, mute |-> u,
                other |-> {}]

\* ids of cal in the order of the calendar's answer (orderBy=startTime)
RECURSIVE OrderByStart(_, _)
OrderByStart(cal, ids) ==
  IF ids = {} THEN <<>>
  ELSE LET first == CHOOSE e \in ids : \A f \in ids :
                      \/ cal[e].start < cal[f].start
                      \/ cal[e].start = cal[f].start /\ e <= f
       IN <<first>> \o OrderByStart(cal, ids \ {first})

Take(s, n) == IF Len(s) <= n THEN s ELSE SubSeq(s, 1, n)

\* events().list(timeMin=now): the events that end after now
list_upcoming(cal, now, limit) ==
  Take(OrderByStart(cal, {e \in EventIds :
          /\ cal[e].present
          /\ EndOf(cal[e]) > now}), limit)

Item(cal, e) == [id |-> e, dt |-> get_event_start_dt(cal[e]),
                 summary |-> Strip(cal[e].summary), mute |-> is_muted(cal[e])]

\* the items come sorted by start already and the sort is stable
_sorted_upcoming_items(cal, now) ==
  LET ids == list_upcoming(cal, now, UpcomingLimit)
      Resolved(e) == get_event_start_dt(cal[e]) # NoStart
      kept == SelectSeq(ids, Resolved)
  IN [k \in 1..Len(kept) |-> Item(cal, kept[k])]

(***************************************************************************)
(* The window tests of notify_schedules.                                   *)
(***************************************************************************)
\* a variant that takes the lower edge in
InHourWindow_closed(diff) == HourLo <= diff /\ diff <= HourHi

InHourWindow(diff) == HourLo < diff /\ diff <= HourHi
InDayWindow(diff) == DayLo < diff /\ diff <= DayHi
InWeekWindow(diff) == WeekLo < diff /\ diff <= WeekHi

InWindow(t, diff) ==
  CASE t = 1 -> InHourWindow(diff)
    [] t = 2 -> InDayWindow(diff)
    [] t = 3 -> InWeekWindow(diff)

\* uid_hour, uid_day, uid_week without the threshold suffix
Uid(s) == <<MinuteOf(s.dt), s.summary>>

Ledgers == <<notified_schedules_hour, notified_schedules_day,
             notified_schedules_week>>

\* a gate that lets every key through
ShouldFire_always(L, t, uid) == TRUE

\* the dedup gate of one threshold: "uid not in notified_schedules_*"
ShouldFire(L, t, uid) == uid \notin L[t]

\* notified_schedules_*.add(uid)
MarkFired(L, t, uid) == [L EXCEPT ![t] = @ \cup {uid}]

(***************************************************************************)
(* The loop over items and thresholds, run from threshold t of item i up   *)
(* to the next send (an await) or the end of the tick.  With an empty      *)
(* recipient set a fan-out loop has no iteration and the key is added.     *)
(***************************************************************************)
RECURSIVE Scan(_, _, _, _, _, _, _)
Scan(items, now, i, t, L, skip, uids) ==
  IF i > Len(items) THEN [pc |-> "done", i |-> 0, t |-> 0, L |-> L, skip |-> skip]
  ELSE IF t > 3 THEN Scan(items, now, i + 1, 1, L, skip, uids)
  ELSE IF items[i].mute THEN Scan(items, now, i + 1, 1, L, skip, uids)
  ELSE IF ~InWindow(t, items[i].dt - now)
       THEN Scan(items, now, i, t + 1, L, skip, uids)
  ELSE IF ~ShouldFire(L, t, Uid(items[i]))
       THEN Scan(items, now, i, t + 1, L, skip \cup {<<items[i].id, t>>}, uids)
  ELSE IF uids = {}
       THEN Scan(items, now, i, t + 1, MarkFired(L, t, Uid(items[i])), skip, uids)
  ELSE [pc |-> "send", i |-> i, t |-> t, L |-> L, skip |-> skip]

Idle == [pc |-> "sleep", now |-> 0, items |-> <<>>, i |-> 0, th |-> 0,
         chat |-> 0, visited |-> {}, si_used |-> 0, snap |-> {}, n |-> 0]

\* the last command handled and what it answered
Answer(cmd, c, res, id, changed, n1, n2) == [cmd |-> cmd, chat |-> c, res |-> res, id |-> id, changed |-> changed, n1 |-> n1, n2 |-> n2]
Reply(cmd, c, res) == Answer(cmd, c, res, 0, FALSE, 0, 0)
NoCmd == Reply("none", 0, "")

NoNoti == [pc |-> "idle", queue |-> <<>>, failed |-> 0, by |-> 0]

IsAdmin(c) == \E k \in 1..Len(admins) : admins[k] = c

(***************************************************************************)
(* History kept for the properties: delivered counts the reminders that    *)
(* reached a recipient per (event id, threshold), capped at 2; dispatched  *)
(* holds the (event id, threshold) pairs whose fan-out began; skippedDue   *)
(* holds the pairs the dedup gate suppressed while unmuted and in window;  *)
(* track follows each event through the 3-hour window.                     *)
(***************************************************************************)
Bump(d, c, e, t) == [d EXCEPT ![<<c, e, t>>] = IF @ < 2 THEN @ + 1 ELSE @]

TrackAt(tr, items, now) ==
  [e \in EventIds |->
     IF \E k \in 1..Len(items) : items[k].id = e /\ ~items[k].mute
     THEN LET k == CHOOSE j \in 1..Len(items) : items[j].id = e
              diff == items[k].dt - now
          IN IF diff > HourHi THEN "armed"
             ELSE IF InHourWindow(diff) THEN "hit"
             ELSE IF tr[e] = "armed" THEN "skipped"
             ELSE tr[e]
     ELSE "none"]

NoTrack == [e \in EventIds |-> "none"]

(***************************************************************************)
(* notify_schedules                                                        *)
(***************************************************************************)
\* the state of the loop at the send that Scan stopped at
AtSend(items, now, r, uids) ==
  LET c == Min(uids)
  IN [pc |-> "send", now |-> now, items |-> items, i |-> r.i, th |-> r.t,
      chat |-> c, visited |-> {c}, si_used |-> Cardinality(uids),
      snap |-> uids, n |-> 1]

\* what follows in the tick from threshold t of item i on
Continue(items, now, i, t, L) ==
  LET r == Scan(items, now, i, t, L, skippedDue, user_ids)
  IN /\ notified_schedules_hour' = r.L[1]
     /\ notified_schedules_day' = r.L[2]
     /\ notified_schedules_week' = r.L[3]
     /\ skippedDue' = r.skip
     /\ IF r.pc = "done"
        THEN /\ poll' = Idle
             /\ dispatched' = dispatched
        ELSE /\ poll' = AtSend(items, now, r, user_ids)
             /\ dispatched' = dispatched \cup {<<items[r.i].id, r.t>>}

\* _sorted_upcoming_items raises: an event of the answer has a start that
\* does not parse
ItemsRaise(cal, now) ==
  LET ids == list_upcoming(cal, now, UpcomingLimit)
  IN \E k \in 1 .. Len(ids) : StartRaises(cal[ids[k]])

\* a variant in which an exception ends the loop
TickRaised_exit == [Idle EXCEPT !.pc = "stopped"]

\* "except Exception as e: print(...); await asyncio.sleep(60)": an exception
\* of the tick is caught and the loop sleeps
TickRaised == Idle

\* one iteration of "while True" up to its first await: the sample of now,
\* the recipient test, the calendar read and the loop up to the first send
PollTick(d, fetchOk) ==
  /\ poll.pc = "sleep"
  /\ ticks < MaxTicks
  /\ ticks = 0 => d = 0
  /\ LET now == IF ticks = 0 THEN clock ELSE clock + SleepSec + d
     IN /\ clock' = now
        /\ ticks' = ticks + 1
        /\ IF user_ids = {}
           THEN /\ fetchOk
                /\ poll' = Idle
                /\ track' = NoTrack
                /\ UNCHANGED <<ledgerVars, dispatched, skippedDue>>
           ELSE IF ~fetchOk \/ ItemsRaise(events, now)
           THEN /\ poll' = TickRaised
                /\ track' = NoTrack
                /\ UNCHANGED <<ledgerVars, dispatched, skippedDue>>
           ELSE LET items == _sorted_upcoming_items(events, now)
                IN /\ Continue(items, now, 1, 1, Ledgers)
                   /\ track' = TrackAt(track, items, now)
  /\ UNCHANGED <<events, user_ids, user_id_file, admins, noti, cmds, lastCmd,
                 delivered>>
  /\ UNCHANGED <<confVars, evalVars, notiHist>>

\* what next(iterator) of "for chat_id in user_ids" can give: the set is the
\* live one, and an iterator over a set whose size changed raises
IterRaises == Cardinality(user_ids) # poll.si_used

IterNext ==
  IF user_ids = poll.snap
  THEN IF user_ids \ poll.visited = {} THEN {EndIter}
       ELSE {Min(user_ids \ poll.visited)}
  ELSE user_ids \cup {EndIter}

\* a variant in which a send that raises leaves the loop
SendStops_raise(ok) == ~ok

\* "except Exception as e: print(...)" around each send: a send that raises
\* does not leave the loop
SendStops(ok) == FALSE

\* a send of the fan-out returns (ok) or raises (caught and printed), and the
\* loop runs on to its next await
PollSendDone(ok, pick) ==
  /\ poll.pc = "send"
  /\ delivered' = IF ok THEN Bump(delivered, poll.chat, poll.items[poll.i].id, poll.th)
                  ELSE delivered
  /\ IF IterRaises \/ SendStops(ok)
     THEN /\ pick = EndIter
          /\ poll' = TickRaised
          /\ track' = NoTrack
          /\ UNCHANGED <<ledgerVars, dispatched, skippedDue>>
     ELSE /\ pick \in IterNext
          /\ track' = track
          /\ IF pick # EndIter
             THEN /\ poll' = [poll EXCEPT !.chat = pick,
                                          !.visited = @ \cup {pick},
                                          !.snap = user_ids,
                                          !.n = @ + 1]
                  /\ UNCHANGED <<ledgerVars, dispatched, skippedDue>>
             ELSE Continue(poll.items, poll.now, poll.i, poll.th + 1,
                           MarkFired(Ledgers, poll.th, Uid(poll.items[poll.i])))
  /\ UNCHANGED <<clock, events, user_ids, user_id_file, admins, ticks, noti,
                 cmds, lastCmd>>
  /\ UNCHANGED <<confVars, evalVars, notiHist>>

(***************************************************************************)
(* Command handlers.  The application handles one update at a time         *)
(* (concurrent_updates is off), so a handler starts only when no other     *)
(* handler is suspended; the polling loop and the timers are tasks of      *)
(* their own.                                                              *)
(***************************************************************************)
HandlerFree == noti.pc = "idle" /\ cmds < MaxCmds

\* /start
start(c) ==
  /\ HandlerFree
  /\ user_ids' = user_ids \cup {c}
  /\ user_id_file' = IF c \notin user_ids THEN user_ids \cup {c} ELSE user_id_file
  /\ lastCmd' = Reply("start", c, "welcome")
  /\ cmds' = cmds + 1
  /\ UNCHANGED <<clock, events, admins, ledgerVars, poll, ticks, noti, histVars>>
  /\ UNCHANGED <<confVars, evalVars, notiHist>>

\* list(user_ids)
RECURSIVE ListOf(_)
ListOf(S) == IF S = {} THEN <<>> ELSE <<Min(S)>> \o ListOf(S \ {Min(S)})

\* /noti up to its first send
notice(c, hasText) ==
  /\ HandlerFree
  /\ cmds' = cmds + 1
  /\ IF ~IsAdmin(c) THEN lastCmd' = Reply("noti", c, "not_admin") /\ noti' = noti
     ELSE IF ~hasText THEN lastCmd' = Reply("noti", c, "no_text") /\ noti' = noti
     ELSE IF user_ids = {} THEN lastCmd' = Reply("noti", c, "no_target") /\ noti' = noti
     ELSE /\ noti' = [pc |-> "sending", queue |-> ListOf(user_ids), failed |-> 0, by |-> c]
          /\ lastCmd' = Reply("noti", c, "sending")
  /\ IF noti'.pc = "sending"
     THEN notiStart' = user_ids /\ notiLog' = <<>>
     ELSE UNCHANGED notiHist
  /\ UNCHANGED <<clock, events, user_ids, user_id_file, admins, ledgerVars, poll,
                 ticks, histVars>>
  /\ UNCHANGED <<confVars, evalVars>>

\* what bot.send_message does: it returns, or raises for a failure that will
\* pass (a timeout, a network error) or for one that will not (the recipient
\* blocked the bot, the chat is gone)
SendOutcomes == {"ok", "transient", "permanent"}

\* a send of /noti returns or raises ("except Exception" takes every
\* failure alike); after the last one the report
notice_send(out) ==
  /\ noti.pc = "sending"
  /\ notiLog' = Append(notiLog, [chat |-> Head(noti.queue), out |-> out])
  /\ notiStart' = notiStart
  /\ LET c == Head(noti.queue)
         ok == out = "ok"
         rest == Tail(noti.queue)
         nfail == IF ok THEN noti.failed ELSE noti.failed + 1
         uids == IF ok THEN user_ids ELSE user_ids \ {c}
     IN /\ user_ids' = uids
        /\ user_id_file' = IF ok THEN user_id_file ELSE uids
        /\ IF rest = <<>>
           THEN /\ noti' = NoNoti
                /\ lastCmd' = Answer("noti", noti.by, IF nfail > 0 THEN "partial" ELSE "all",
                                     0, FALSE, Cardinality(uids), nfail)
           ELSE /\ noti' = [noti EXCEPT !.queue = rest, !.failed = nfail]
                /\ lastCmd' = lastCmd
  /\ UNCHANGED <<clock, events, admins, ledgerVars, poll, ticks, cmds, histVars>>
  /\ UNCHANGED <<confVars, evalVars>>

\* the body holds a copy of the private entries of the event with "mute" set
set_mute_on_body(ev, mute) == [mute |-> IF mute THEN "v" ELSE "", other |-> ev.other]

\* the entries of old with those of new laid over them
MergePairs(old, new) == {p \in old : \A q \in new : q[1] # p[1]} \cup new

\* a variant that puts the body in the place of the event: what the body
\* does not hold is lost
PatchMute_replace(ev, body) ==
  [ev EXCEPT !.mute = body.mute, !.other = body.other, !.summary = ""]

\* events().patch with a body that holds extendedProperties.private only:
\* the entries of the body are laid over those of the event, the other
\* fields of the event stay
PatchMute(ev, body) ==
  [ev EXCEPT !.mute = body.mute, !.other = MergePairs(@, body.other)]

\* /mute (mute = TRUE) and /unmute (mute = FALSE); n is the number typed
SetMute(cmd, mute, c, n, raises) ==
  /\ HandlerFree
  /\ cmds' = cmds + 1
  /\ LET items == _sorted_upcoming_items(events, clock)
         idx == n - 1
     IN IF ~IsAdmin(c) THEN lastCmd' = Reply(cmd, c, "not_admin") /\ events' = events
        ELSE IF raises THEN lastCmd' = Reply(cmd, c, "error") /\ events' = events
        ELSE IF ~(0 <= idx /\ idx < Len(items))
             THEN lastCmd' = Reply(cmd, c, "bad_index") /\ events' = events
        ELSE LET id == items[idx + 1].id
             IN /\ events' = [events EXCEPT ![id] = PatchMute(@, set_mute_on_body(@, mute))]
                /\ lastCmd' = Answer(cmd, c, "ok", id, FALSE, 0, 0)
  /\ track' = IF events' # events THEN [track EXCEPT ![lastCmd'.id] = "none"] ELSE track
  /\ UNCHANGED <<clock, user_ids, user_id_file, admins, ledgerVars, poll, ticks,
                 noti, delivered, dispatched, skippedDue>>
  /\ UNCHANGED <<confVars, evalVars, notiHist>>

mute_schedule(c, n, raises) == SetMute("mute", TRUE, c, n, raises)

unmute_schedule(c, n, raises) == SetMute("unmute", FALSE, c, n, raises)

\* patch_event(id, dt_kst, summary, mute)
patch_event(ev, dt, summary, mute) ==
  [ev EXCEPT !.start = dt, !.summary = summary, !.mute = IF mute THEN "v" ELSE ""]

\* /edit n YYMMDD HHMM summary
edit_schedule(c, n, dt, summary, raises) ==
  /\ HandlerFree
  /\ cmds' = cmds + 1
  /\ LET items == _sorted_upcoming_items(events, clock)
         idx == n - 1
     IN IF ~IsAdmin(c) THEN lastCmd' = Reply("edit", c, "not_admin") /\ events' = events
        ELSE IF raises THEN lastCmd' = Reply("edit", c, "error") /\ events' = events
        ELSE IF ~(0 <= idx /\ idx < Len(items))
             THEN lastCmd' = Reply("edit", c, "bad_index") /\ events' = events
        ELSE IF dt < clock
             THEN lastCmd' = Reply("edit", c, "past") /\ events' = events
        ELSE LET target == items[idx + 1]
             IN /\ events' = [events EXCEPT ![target.id] =
                                patch_event(@, dt, summary, target.mute)]
                /\ lastCmd' = Answer("edit", c, "ok", target.id,
                                     \/ events[target.id].start # dt
                                     \/ events[target.id].summary # summary, 0, 0)
  /\ track' = IF lastCmd'.res = "ok" THEN [track EXCEPT ![lastCmd'.id] = "none"] ELSE track
  /\ UNCHANGED <<clock, user_ids, user_id_file, admins, ledgerVars, poll, ticks,
                 noti, delivered, dispatched, skippedDue>>
  /\ UNCHANGED <<confVars, evalVars, notiHist>>

(***************************************************************************)
(* The polling loop with the handlers that share its state.                *)
(***************************************************************************)
\* the first tick samples the start of the 1-week or the 1-day window, or one
\* second before the 3-hour window
InitClocks == {Base - WeekHi, Base - DayHi, Base - HourHi - 1}
EditStarts == {Base, Base + 60}
NumArgs == 1 .. 2
PollAdmins == {1}

\* event 1 is listed; event 2 is absent, shares event 1's minute and summary,
\* or differs in its summary
InitEvents ==
  {[e \in EventIds |-> IF e = 1 THEN Ev(Base, "a", "") ELSE x] :
     x \in {Absent, Ev(Base + 30, "a", ""), Ev(Base, "b", "")}}
  \cup {[e \in EventIds |-> IF e = 1 THEN Ev(Base, "a", "v") ELSE Absent]}

InitUsers == {{}, {1}, {1, 2}}

Init ==
  /\ clock \in InitClocks
  /\ events \in InitEvents
  /\ user_ids \in InitUsers
  /\ user_id_file = user_ids
  /\ admins = <<1>>
  /\ notified_schedules_hour = {}
  /\ notified_schedules_day = {}
  /\ notified_schedules_week = {}
  /\ poll = Idle
  /\ ticks = 0
  /\ noti = NoNoti
  /\ cmds = 0
  /\ lastCmd = NoCmd
  /\ delivered = [x \in Chats \X EventIds \X Thresholds |-> 0]
  /\ dispatched = {}
  /\ skippedDue = {}
  /\ track = NoTrack
  /\ confirm_action = [c \in Chats |-> "none"]
  /\ confirm_task = [c \in Chats |-> 0]
  /\ tasks = <<>>
  /\ evalIn = 0
  /\ evalOut = {}
  /\ evalPc = "off"
  /\ notiStart = {}
  /\ notiLog = <<>>

Next ==
  \/ \E d \in 0 .. MaxProc, fetchOk \in BOOLEAN : PollTick(d, fetchOk)
  \/ \E ok \in BOOLEAN, pick \in Chats \cup {EndIter} : PollSendDone(ok, pick)
  \/ \E c \in Chats : start(c)
  \/ \E c \in PollAdmins : notice(c, TRUE)
  \/ \E out \in {"ok", "permanent"} : notice_send(out)
  \/ \E c \in PollAdmins, n \in NumArgs : mute_schedule(c, n, FALSE)
  \/ \E c \in PollAdmins, n \in NumArgs : unmute_schedule(c, n, FALSE)
  \/ \E c \in PollAdmins, n \in NumArgs, dt \in EditStarts :
       edit_schedule(c, n, dt, "a", FALSE)

Spec == Init /\ [][Next]_vars

(***************************************************************************)
(* Properties of the polling loop.                                         *)
(***************************************************************************)
\* the dedup key the loop computes for event e of calendar cal
KeyOfEvent(cal, e) == Uid(Item(cal, e))

\* the step starts a send of the fan-out
IsSendStep == poll'.pc = "send" /\ poll' # poll

\* C1: no recipient receives more than one reminder for the same event and
\* threshold, whatever the interleaving of the ticks with /start and /noti.
C1_AtMostOneReminder == \A x \in DOMAIN delivered : delivered[x] <= 1

\* C2: an event that stays listed and unmuted, with recipients present and no
\* tick raising, is never seen by one tick above the 3-hour window and by a
\* later tick below it without a tick in between having sampled it inside.
C2_HourWindowNotSkipped == \A e \in EventIds : track[e] # "skipped"

\* C4: each ledger only grows, and no send is started for a key that is in
\* the ledger of the send's threshold.
C4_LedgerGates ==
  [][/\ \A t \in Thresholds : Ledgers[t] \subseteq Ledgers'[t]
     /\ poll'.pc = "send" =>
          Uid(poll'.items[poll'.i]) \notin Ledgers'[poll'.th]]_vars

C4_Witness ==
  \E t \in Thresholds :
     /\ <<1, t>> \in dispatched
     /\ <<1, t>> \in skippedDue
     /\ KeyOfEvent(events, 1) \in Ledgers[t]
     /\ delivered[<<1, 1, t>>] = 1
     /\ poll.pc = "sleep"

\* C5: no send is started for an event whose mute flag is set in the calendar
\* at that moment.
C5_MutedNeverSent ==
  [][IsSendStep => ~is_muted(events'[poll'.items[poll'.i].id])]_vars

\* C6: after an /edit that changed the start or the summary of an event, the
\* key of the edited event is in none of the three ledgers.
C6_EditRearms ==
  [][\A e \in EventIds :
        (/\ events[e].present
         /\ events'[e].present
         /\ \/ events'[e].start # events[e].start
            \/ events'[e].summary # events[e].summary)
        => \A t \in Thresholds : KeyOfEvent(events', e) \notin Ledgers'[t]]_vars

\* C7: an event that a tick finds unmuted and inside a threshold's window,
\* with recipients present, and holds back at the dedup gate has had a
\* fan-out of its own for that threshold.
C7_OwnReminderPerEvent == skippedDue \subseteq dispatched

\* the step is the return of a send of the fan-out
IsSendDone == poll.pc = "send" /\ poll' # poll

\* the (item, threshold) pairs after item i that are due when the ledgers are L
DueAfter(i, L) ==
  {x \in ((i + 1) .. Len(poll.items)) \X Thresholds :
     /\ ~poll.items[x[1]].mute
     /\ InWindow(x[2], poll.items[x[1]].dt - poll.now)
     /\ Uid(poll.items[x[1]]) \notin L[x[2]]}

\* C15: when a send of a fan-out raises and no handler has changed the
\* recipient set, the fan-out goes on: the next send is for the same event and
\* threshold, to a recipient not yet attempted; after the last recipient the
\* key is recorded and, when a following event of the tick is due, the send
\* for it starts in the same step.
C15_FailedSendContinues ==
  [][(/\ IsSendDone
      /\ delivered' = delivered
      /\ delivered[<<poll.chat, poll.items[poll.i].id, poll.th>>] = 0
      /\ user_ids = poll.snap
      /\ Cardinality(user_ids) = poll.si_used
      /\ poll.visited \subseteq user_ids) =>
       IF user_ids \ poll.visited # {}
       THEN /\ poll'.pc = "send"
            /\ poll'.i = poll.i
            /\ poll'.th = poll.th
            /\ poll'.chat \in user_ids \ poll.visited
            /\ poll'.visited = poll.visited \cup {poll'.chat}
       ELSE /\ Uid(poll.items[poll.i]) \in Ledgers'[poll.th]
            /\ DueAfter(poll.i, Ledgers') # {} =>
                 /\ poll'.pc = "send"
                 /\ <<poll'.i, poll'.th>> \in DueAfter(poll.i, Ledgers')
                 /\ <<poll'.items[poll'.i].id, poll'.th>> \in dispatched']_vars

\* every send for the first event failed and the send for the second began
C15_Witness ==
  /\ poll.pc = "send"
  /\ poll.i = 2
  /\ user_ids = {1, 2}
  /\ <<poll.items[1].id, poll.th>> \in dispatched
  /\ \A c \in Chats : delivered[<<c, poll.items[1].id, poll.th>>] = 0

\* C16: a fan-out that has begun ends complete, whatever the handlers do to
\* the recipient set while it is suspended: when the loop leaves the fan-out,
\* the number of sends attempted is the size the set had at the start, no
\* recipient was attempted twice, and the key is recorded.
C16_FanoutOverSnapshot ==
  [][(/\ IsSendDone
      /\ \/ poll'.pc # "send"
         \/ poll'.i # poll.i
         \/ poll'.th # poll.th) =>
       /\ poll.n = poll.si_used
       /\ Cardinality(poll.visited) = poll.n
       /\ Uid(poll.items[poll.i]) \in Ledgers'[poll.th]]_vars

\* C18: the polling loop is never stopped: it is asleep or suspended on a
\* send, a suspended send can return, and a sleeping loop can start its next
\* tick (within the ticks of the model), also after a tick that raised.
C18_LoopNeverStops ==
  /\ poll.pc \in {"sleep", "send"}
  /\ poll.pc = "send" =>
       ENABLED (\E ok \in BOOLEAN, pick \in Chats \cup {EndIter} : PollSendDone(ok, pick))
  /\ (poll.pc = "sleep" /\ ticks < MaxTicks) =>
       ENABLED (\E d \in 0 .. MaxProc, fetchOk \in BOOLEAN : PollTick(d, fetchOk))

\* the loop asleep after a tick whose fan-out began and raised before the key
\* was recorded
C18_Witness ==
  /\ poll.pc = "sleep"
  /\ ticks = 1
  /\ dispatched # {}
  /\ \A t \in Thresholds : Ledgers[t] = {}
  /\ ENABLED (\E d \in 0 .. MaxProc, fetchOk \in BOOLEAN : PollTick(d, fetchOk))

\* C14: a key enters a ledger only in a step that ends a fan-out in which a
\* send for that event and threshold succeeded.
C14_LedgerOnlyAfterSuccess ==
  [][\A t \in Thresholds :
        Ledgers'[t] # Ledgers[t] =>
           /\ poll.pc = "send"
           /\ poll.th = t
           /\ \E c \in Chats : delivered'[<<c, poll.items[poll.i].id, t>>] >= 1]_vars

(***************************************************************************)
(* The window tests alone: notify_schedules applies its three tests to     *)
(* diff = event_time - now; the inputs are the diffs around every edge of  *)
(* the three windows and around 0.                                         *)
(***************************************************************************)
EvalSlack == 3

Edges == {0, HourLo, HourHi, DayLo, DayHi, WeekLo, WeekHi}

DiffSamples == UNION {(b - EvalSlack) .. (b + EvalSlack) : b \in Edges}

\* the thresholds whose "if" is taken for diff
WindowTests(diff) == {t \in Thresholds : InWindow(t, diff)}

PollFrozen ==
  /\ user_ids = {}
  /\ user_id_file = {}
  /\ notified_schedules_hour = {}
  /\ notified_schedules_day = {}
  /\ notified_schedules_week = {}
  /\ poll = Idle
  /\ ticks = 0
  /\ noti = NoNoti
  /\ cmds = 0
  /\ lastCmd = NoCmd
  /\ delivered = [x \in Chats \X EventIds \X Thresholds |-> 0]
  /\ dispatched = {}
  /\ skippedDue = {}
  /\ track = NoTrack
  /\ notiStart = {}
  /\ notiLog = <<>>

InitWindow ==
  /\ clock = Base
  /\ events = [e \in EventIds |-> Absent]
  /\ admins = <<>>
  /\ PollFrozen
  /\ confirm_action = [c \in Chats |-> "none"]
  /\ confirm_task = [c \in Chats |-> 0]
  /\ tasks = <<>>
  /\ evalIn \in DiffSamples
  /\ evalOut = {}
  /\ evalPc = "in"

Evaluate ==
  /\ evalPc = "in"
  /\ evalOut' = WindowTests(evalIn)
  /\ evalPc' = "out"
  /\ UNCHANGED <<clock, events, user_ids, user_id_file, admins, ledgerVars, poll,
                 ticks, noti, cmds, lastCmd, histVars, confVars, evalIn, notiHist>>

NextDiff(d) ==
  /\ evalPc = "out"
  /\ evalIn' = d
  /\ evalPc' = "in"
  /\ UNCHANGED <<clock, events, user_ids, user_id_file, admins, ledgerVars, poll,
                 ticks, noti, cmds, lastCmd, histVars, confVars, evalOut, notiHist>>

NextWindow == Evaluate \/ \E d \in DiffSamples : NextDiff(d)

SpecWindow == InitWindow /\ [][NextWindow]_vars

MaxConf == 2
MaxAdvance == 5
TimeStep == 10

ConfirmTimeout == 30
HistoryDays == 365
HistoryLimit == 500

DelOutcomes == {"ok", "http", "other"}

ConfFree == noti.pc = "idle" /\ cmds < MaxConf

\* a variant that never finds a pending confirmation
ConfirmPending_never(ca, c) == FALSE

\* f"confirm_action_{chat_id}" in bot_data
ConfirmPending(ca, c) == ca[c] # "none"

\* /delall (kind = "delall") and /delhistory (kind = "delhistory")
ConfirmPrompt(kind, c) ==
  /\ ConfFree
  /\ cmds' = cmds + 1
  /\ IF ~IsAdmin(c)
     THEN lastCmd' = Reply(kind, c, "not_admin") /\ UNCHANGED confVars
     ELSE IF ConfirmPending(confirm_action, c)
     THEN lastCmd' = Reply(kind, c, "busy") /\ UNCHANGED confVars
     ELSE /\ confirm_action' = [confirm_action EXCEPT ![c] = kind]
          /\ tasks' = Append(tasks, [chat |-> c, deadline |-> clock + ConfirmTimeout,
                                     st |-> "sleeping"])
          /\ confirm_task' = [confirm_task EXCEPT ![c] = Len(tasks) + 1]
          /\ lastCmd' = Reply(kind, c, "prompt")
  /\ UNCHANGED <<clock, events, user_ids, user_id_file, admins, ledgerVars, poll,
                 ticks, noti, histVars, evalVars, notiHist>>

delall_confirm_prompt(c) == ConfirmPrompt("delall", c)

delhistory_confirm_prompt(c) == ConfirmPrompt("delhistory", c)

\* a variant that leaves the action in place
TimeoutPop_keep(ca, c) == ca

\* bot_data.pop(f"confirm_action_{chat_id}", None) of confirm_timeout
TimeoutPop(ca, c) == [ca EXCEPT ![c] = "none"]

\* task k wakes from asyncio.sleep(30)
confirm_timeout(k, sendOk) ==
  /\ tasks[k].st = "sleeping"
  /\ clock >= tasks[k].deadline
  /\ LET c == tasks[k].chat
     IN IF confirm_action[c] # "none"
        THEN /\ confirm_action' = TimeoutPop(confirm_action, c)
             /\ confirm_task' = [confirm_task EXCEPT ![c] = 0]
             /\ tasks' = [tasks EXCEPT ![k].st = IF sendOk THEN "noticed"
                                                 ELSE "notice_failed"]
        ELSE /\ sendOk
             /\ tasks' = [tasks EXCEPT ![k].st = "silent"]
             /\ UNCHANGED <<confirm_action, confirm_task>>
  /\ UNCHANGED <<clock, events, user_ids, user_id_file, admins, ledgerVars, poll,
                 ticks, noti, cmds, lastCmd, histVars, evalVars, notiHist>>

\* events().list(timeMin=now-days, timeMax=now): the events that end after
\* timeMin and start before timeMax
list_past(cal, now, days, limit) ==
  Take(OrderByStart(cal, {e \in EventIds :
          /\ cal[e].present
          /\ EndOf(cal[e]) > now - days * 86400
          /\ cal[e].start < now}), limit)

\* events().delete
delete_event(cal, e) == [cal EXCEPT ![e] = Absent]

\* the delete loops of ok_handler: out[e] is what delete_event(e) does, "ok",
\* "http" (HttpError, passed over) or "other" (any other exception, which
\* leaves the handler)
RECURSIVE DeleteLoop(_, _, _, _, _)
DeleteLoop(cal, ids, out, count, failed) ==
  IF ids = <<>> THEN [cal |-> cal, count |-> count, failed |-> failed, raised |-> FALSE]
  ELSE LET e == Head(ids)
       IN IF out[e] = "ok"
          THEN DeleteLoop(delete_event(cal, e), Tail(ids), out, count + 1, failed)
          ELSE IF out[e] = "http"
          THEN DeleteLoop(cal, Tail(ids), out, count, failed + 1)
          ELSE [cal |-> cal, count |-> count, failed |-> failed + 1, raised |-> TRUE]

\* the ids ok_handler deletes for an action
OkBatch(action, cal, now) ==
  IF action = "delall"
  THEN LET items == _sorted_upcoming_items(cal, now)
       IN [k \in 1..Len(items) |-> items[k].id]
  ELSE LET evs == list_past(cal, now, HistoryDays, HistoryLimit)
           Before(e) == /\ get_event_start_dt(cal[e]) # NoStart
                        /\ get_event_start_dt(cal[e]) < now
       IN SelectSeq(evs, Before)

\* a variant that leaves the task running
CancelTask_skip(ts, k) == ts

\* "if task: task.cancel()"
CancelTask(ts, k) ==
  IF k = 0 THEN ts
  ELSE [ts EXCEPT ![k].st = IF @ = "sleeping" THEN "cancelled" ELSE @]

\* /ok; listRaises: the calendar read raises
ok_handler(c, listRaises, out) ==
  /\ ConfFree
  /\ cmds' = cmds + 1
  /\ LET action == confirm_action[c]
         task == confirm_task[c]
     IN /\ confirm_action' = [confirm_action EXCEPT ![c] = "none"]
        /\ confirm_task' = [confirm_task EXCEPT ![c] = 0]
        /\ tasks' = CancelTask(tasks, task)
        /\ IF action = "none"
           THEN /\ lastCmd' = Reply("ok", c, "nothing")
                /\ events' = events
           ELSE IF listRaises
           THEN /\ lastCmd' = Reply("ok", c, "raised")
                /\ events' = events
           ELSE LET r == DeleteLoop(events, OkBatch(action, events, clock), out, 0, 0)
                IN /\ events' = r.cal
                   /\ lastCmd' = Answer("ok", c, IF r.raised THEN "raised" ELSE action,
                                        0, FALSE, r.count, r.failed)
  /\ UNCHANGED <<clock, user_ids, user_id_file, admins, ledgerVars, poll, ticks,
                 noti, histVars, evalVars, notiHist>>

\* time passes
Advance ==
  /\ clock + TimeStep <= Base + MaxAdvance * TimeStep
  /\ clock' = clock + TimeStep
  /\ UNCHANGED <<events, user_ids, user_id_file, admins, ledgerVars, poll, ticks,
                 noti, cmds, lastCmd, histVars, confVars, evalVars, notiHist>>

\* an event that ended more than 365 days ago, one that was going on 365 days
\* ago, one that ended, one that began and has not ended, and one that has
\* not begun
ConfEventChoices ==
  {Absent, Ev(Base - HistoryDays * 86400 - 7200, "a", ""),
   Ev(Base - HistoryDays * 86400 - 1800, "a", ""), Ev(Base - 7200, "a", ""),
   Ev(Base - 1800, "a", ""), Ev(Base + 7200, "a", "")}

InitConfirm ==
  /\ clock = Base
  /\ events \in [EventIds -> ConfEventChoices]
  /\ admins \in {<<1>>, <<1, 2>>}
  /\ PollFrozen
  /\ confirm_action = [c \in Chats |-> "none"]
  /\ confirm_task = [c \in Chats |-> 0]
  /\ tasks = <<>>
  /\ evalIn = 0
  /\ evalOut = {}
  /\ evalPc = "off"

NextConfirm ==
  \/ \E c \in Chats : delall_confirm_prompt(c)
  \/ \E c \in Chats : delhistory_confirm_prompt(c)
  \/ \E k \in 1 .. Len(tasks), sendOk \in BOOLEAN : confirm_timeout(k, sendOk)
  \/ \E c \in Chats, listRaises \in BOOLEAN, out \in [EventIds -> DelOutcomes] :
       ok_handler(c, listRaises, out)
  \/ Advance

SpecConfirm == InitConfirm /\ [][NextConfirm]_vars

(***************************************************************************)
(* Properties of the confirmation protocol.                                *)
(***************************************************************************)
\* the step is the handling of a command cmd of chat c
IsCmdStep(cmd, c) == cmds' = cmds + 1 /\ lastCmd'.cmd = cmd /\ lastCmd'.chat = c

\* the events a step removes from the calendar
Removed == {e \in EventIds : events[e].present /\ ~events'[e].present}

\* the events an upcoming listing shows at the time of the step: those that
\* have not ended
ListedUpcoming == {e \in EventIds : events[e].present
                                      /\ events[e].start + 3600 > clock}

\* the events of the trailing 365 days that began before now
TrailingYearBegun == {e \in EventIds : /\ events[e].present
                                        /\ events[e].start + 3600 > clock - 365 * 86400
                                        /\ events[e].start < clock}

\* C8: when /ok reaches a chat whose /delall or /delhistory is still pending
\* (its timer has not run), the action that was asked for runs and not the
\* other one: /delall removes events shown by the upcoming listing and none
\* that ended, /delhistory removes events of the trailing 365 days that began
\* before now and none that has yet to begin, each removes all of them when no
\* delete call fails, and nothing else in the calendar changes; the chat has
\* no pending confirmation afterwards, so that a further /ok removes nothing;
\* the timer is cancelled and a cancelled timer never sends its notice.
C8_ConfirmRunsAction ==
  [][/\ \A c \in Chats :
          IsCmdStep("ok", c) =>
            LET act == confirm_action[c]
                k == confirm_task[c]
                target == IF act = "delall" THEN ListedUpcoming ELSE TrailingYearBegun
            IN /\ act # "none" =>
                    /\ lastCmd'.res \in {act, "raised"}
                    /\ Removed \subseteq target
                    /\ act = "delall" =>
                         \A e \in Removed : events[e].start + 3600 > clock
                    /\ act = "delhistory" =>
                         \A e \in Removed : events[e].start < clock
                    /\ (lastCmd'.res = act /\ lastCmd'.n2 = 0) =>
                         (Removed = target /\ lastCmd'.n1 = Cardinality(target))
                    /\ \A e \in EventIds \ Removed : events'[e] = events[e]
                    /\ confirm_action'[c] = "none"
                    /\ confirm_task'[c] = 0
                    /\ k \in 1 .. Len(tasks)
                    /\ tasks'[k].st = "cancelled"
               /\ act = "none" => events' = events
     /\ \A k \in 1 .. Len(tasks) :
          tasks[k].st = "cancelled" => tasks'[k].st = "cancelled"]_vars

C8_Witness ==
  /\ lastCmd.cmd = "ok"
  /\ lastCmd.res = "delhistory"
  /\ lastCmd.n1 = 1
  /\ lastCmd.n2 = 0
  /\ confirm_action[lastCmd.chat] = "none"
  /\ \E k \in 1 .. Len(tasks) : tasks[k].chat = lastCmd.chat /\ tasks[k].st = "cancelled"
  /\ \E e \in EventIds : events[e].present /\ events[e].start > clock

\* the step is the run of timer k after its sleep
IsTimerStep(k) == tasks[k].st = "sleeping" /\ tasks'[k].st \notin {"sleeping", "cancelled"}

\* C9: when the 30-second timer of a pending /delall or /delhistory runs, no
\* /ok having come, no event is deleted, the pending confirmation of the chat
\* is cleared and the cancellation notice is sent to the chat; the timer
\* never runs before its 30 seconds; and an /ok in a chat with nothing
\* pending deletes nothing and answers that there is nothing to confirm.
C9_TimeoutCancels ==
  [][/\ \A k \in 1 .. Len(tasks) :
          (IsTimerStep(k) /\ confirm_action[tasks[k].chat] # "none") =>
             /\ clock >= tasks[k].deadline
             /\ events' = events
             /\ confirm_action'[tasks[k].chat] = "none"
             /\ confirm_task'[tasks[k].chat] = 0
             /\ tasks'[k].st \in {"noticed", "notice_failed"}
     /\ \A c \in Chats :
          (IsCmdStep("ok", c) /\ confirm_action[c] = "none") =>
             /\ events' = events
             /\ lastCmd'.res = "nothing"]_vars

C9_Witness ==
  /\ lastCmd.cmd = "ok"
  /\ lastCmd.res = "nothing"
  /\ \E k \in 1 .. Len(tasks) : tasks[k].chat = lastCmd.chat /\ tasks[k].st = "noticed"
  /\ \E e \in EventIds : events[e].present

\* C12: for one pending confirmation the bulk action and the timeout notice
\* exclude each other.  The timer sends its notice only from its sleep, in a
\* step that is not an /ok, while the confirmation it was started for is
\* still pending, and it clears that confirmation; an /ok that finds a
\* pending action cancels that action's sleeping timer in the same step; the
\* calendar changes only in such an /ok step; and a timer that was cancelled
\* or has run never changes again.
C12_ConfirmTimeoutExclusive ==
  [][/\ \A k \in 1 .. Len(tasks) :
          LET c == tasks[k].chat
          IN /\ (tasks'[k].st \in {"noticed", "notice_failed"} /\ tasks'[k].st # tasks[k].st) =>
                  /\ tasks[k].st = "sleeping"
                  /\ confirm_task[c] = k
                  /\ confirm_action[c] # "none"
                  /\ confirm_action'[c] = "none"
                  /\ cmds' = cmds
                  /\ events' = events
             /\ (IsCmdStep("ok", c) /\ confirm_action[c] # "none" /\ confirm_task[c] = k) =>
                  /\ tasks[k].st = "sleeping"
                  /\ tasks'[k].st = "cancelled"
             /\ tasks[k].st # "sleeping" => tasks'[k] = tasks[k]
     /\ events' # events =>
          \E c \in Chats : /\ IsCmdStep("ok", c)
                           /\ confirm_action[c] # "none"
                           /\ confirm_task[c] \in 1 .. Len(tasks)
     /\ \A c \in Chats : (confirm_action[c] # "none") <=> (confirm_task[c] # 0)]_vars

\* an /ok that came when the timer's 30 seconds were over but before the
\* timer ran
C12_Witness ==
  /\ lastCmd.cmd = "ok"
  /\ lastCmd.res = "delall"
  /\ lastCmd.n1 >= 1
  /\ \E k \in 1 .. Len(tasks) : /\ tasks[k].chat = lastCmd.chat
                                /\ tasks[k].st = "cancelled"
                                /\ clock >= tasks[k].deadline

\* C20: when a delete call of a confirmed bulk delete fails, whatever it
\* raised, the batch goes on: every event of the batch had its delete
\* attempted, and the handler reports the number of deletes that succeeded.
C20_DeleteFailureDoesNotAbort ==
  [][\A c \in Chats :
        (IsCmdStep("ok", c) /\ confirm_action[c] # "none" /\ lastCmd'.n2 > 0) =>
           LET target == IF confirm_action[c] = "delall" THEN ListedUpcoming
                         ELSE TrailingYearBegun
           IN /\ lastCmd'.res = confirm_action[c]
              /\ lastCmd'.n1 = Cardinality(Removed)
              /\ lastCmd'.n1 + lastCmd'.n2 = Cardinality(target)]_vars

\* C10: a /delall or /delhistory in a chat that has a pending confirmation
\* is answered with a rejection and changes nothing: the pending action, its
\* timer and the timer's deadline stay as they were, no timer is created and
\* the calendar is untouched; and the timer of a pending confirmation is the
\* one started by the command that was accepted, due 30 seconds after it.
C10_SecondCommandRejected ==
  [][\A c \in Chats :
        ((IsCmdStep("delall", c) \/ IsCmdStep("delhistory", c))
          /\ confirm_action[c] # "none") =>
           /\ lastCmd'.res \in {"busy", "not_admin"}
           /\ IsAdmin(c) => lastCmd'.res = "busy"
           /\ confirm_action' = confirm_action
           /\ confirm_task' = confirm_task
           /\ tasks' = tasks
           /\ events' = events
           /\ confirm_task[c] \in 1 .. Len(tasks)
           /\ tasks[confirm_task[c]].st = "sleeping"
           /\ tasks[confirm_task[c]].chat = c]_vars

C10_Witness ==
  /\ lastCmd.cmd = "delhistory"
  /\ lastCmd.res = "busy"
  /\ confirm_action[lastCmd.chat] = "delall"
  /\ Len(tasks) = 1
  /\ tasks[1].st = "sleeping"
  /\ tasks[1].deadline = Base + 30
  /\ clock > Base

(***************************************************************************)
(* The confirmation protocol with its scheduling: time passes, and the     *)
(* event loop runs a timer whose sleep is over unless it is cancelled      *)
(* first.  Commands that would start a timer due after the last instant of *)
(* the model are left out.                                                 *)
(***************************************************************************)
Horizon == Base + MaxAdvance * TimeStep

InitLive ==
  /\ InitConfirm
  /\ events = [e \in EventIds |-> IF e = 1 THEN Ev(Base - 7200, "a", "")
                                           ELSE Ev(Base + 7200, "a", "")]

PromptInTime(c) ==
  /\ clock + ConfirmTimeout <= Horizon
  /\ delall_confirm_prompt(c) \/ delhistory_confirm_prompt(c)

TimerRuns(k) ==
  /\ k \in 1 .. Len(tasks)
  /\ \E sendOk \in BOOLEAN : confirm_timeout(k, sendOk)

NextLive ==
  \/ \E c \in Chats : PromptInTime(c)
  \/ \E k \in 1 .. MaxConf : TimerRuns(k)
  \/ \E c \in Chats, listRaises \in BOOLEAN, out \in [EventIds -> DelOutcomes] :
       ok_handler(c, listRaises, out)
  \/ Advance

FairLive == WF_vars(Advance) /\ \A k \in 1 .. MaxConf : WF_vars(TimerRuns(k))

SpecConfirmLive == InitLive /\ [][NextLive]_vars /\ FairLive

\* C13: a chat that has a pending action eventually has none, through /ok
\* or through the run of its timer, whether or not the timer's notice can be
\* sent.
C13_PendingResolved ==
  \A c \in Chats : (confirm_action[c] # "none") ~> (confirm_action[c] = "none")

\* a confirmation ended by its timer although the notice could not be sent
C13_Witness ==
  \E k \in 1 .. Len(tasks) : /\ tasks[k].st = "notice_failed"
                             /\ confirm_action[tasks[k].chat] = "none"
                             /\ cmds = 1

(***************************************************************************)
(* The /noti broadcast alone, over up to three recipients, with every      *)
(* outcome of a send.  notiStart is the recipient set at the start of the  *)
(* last broadcast and notiLog its send attempts in order.                  *)
(***************************************************************************)
NotiChats == 1 .. 3

InitNoti ==
  /\ clock = Base
  /\ events = [e \in EventIds |-> Absent]
  /\ admins = <<1>>
  /\ user_ids \in SUBSET NotiChats
  /\ user_id_file = user_ids
  /\ notified_schedules_hour = {}
  /\ notified_schedules_day = {}
  /\ notified_schedules_week = {}
  /\ poll = Idle
  /\ ticks = 0
  /\ noti = NoNoti
  /\ cmds = 0
  /\ lastCmd = NoCmd
  /\ delivered = [x \in Chats \X EventIds \X Thresholds |-> 0]
  /\ dispatched = {}
  /\ skippedDue = {}
  /\ track = NoTrack
  /\ confirm_action = [c \in Chats |-> "none"]
  /\ confirm_task = [c \in Chats |-> 0]
  /\ tasks = <<>>
  /\ evalIn = 0
  /\ evalOut = {}
  /\ evalPc = "off"
  /\ notiStart = {}
  /\ notiLog = <<>>

NextNoti ==
  \/ \E c \in NotiChats, hasText \in BOOLEAN : notice(c, hasText)
  \/ \E out \in SendOutcomes : notice_send(out)
  \/ \E c \in NotiChats : start(c)

SpecNoti == InitNoti /\ [][NextNoti]_vars

\* the recipients of the attempts of log whose outcome is in outs
LogChats(log, outs) == {log[k].chat : k \in {j \in 1 .. Len(log) : log[j].out \in outs}}

\* the step is a send attempt of the broadcast
IsNotiSend == Len(notiLog') = Len(notiLog) + 1

\* C11: in a /noti broadcast no recipient is attempted twice and only
\* recipients of the set at the start are attempted; a recipient whose send
\* failed permanently leaves the recipient set and every other recipient
\* stays; and when the broadcast ends every recipient of the set at the
\* start was attempted and the report gives the number of sends that
\* succeeded and the number that failed.
C11_BroadcastPartialFailure ==
  [][IsNotiSend =>
       LET c == notiLog'[Len(notiLog')].chat
           out == notiLog'[Len(notiLog')].out
       IN /\ c \in notiStart
          /\ \A k \in 1 .. Len(notiLog) : notiLog[k].chat # c
          /\ user_ids' = IF out = "permanent" THEN user_ids \ {c} ELSE user_ids
          /\ noti'.pc = "idle" =>
               /\ LogChats(notiLog', SendOutcomes) = notiStart
               /\ lastCmd'.cmd = "noti"
               /\ lastCmd'.n1 = Cardinality(LogChats(notiLog', {"ok"}))
               /\ lastCmd'.n2 = Cardinality(LogChats(notiLog', {"transient", "permanent"}))]_vars

\* C17: a recipient leaves the recipient set only in the step of a send to it
\* that failed permanently; a send that failed for a passing reason leaves
\* its recipient in the set.
C17_RemovedOnlyOnPermanentFailure ==
  [][\A c \in NotiChats :
        (c \in user_ids /\ c \notin user_ids') =>
           /\ IsNotiSend
           /\ notiLog'[Len(notiLog')].chat = c
           /\ notiLog'[Len(notiLog')].out = "permanent"]_vars

(***************************************************************************)
(* The polling loop over calendars that hold an event whose start is not   *)
(* a resolved instant: no start at all (fmt "none") or a start whose text  *)
(* does not parse (fmt "bad").  The calendar read itself succeeds.         *)
(***************************************************************************)
OddStarts == {"none", "bad"}

ParseEvents ==
  {[e \in EventIds |-> IF e = 1 THEN Ev(Base, "a", "") ELSE x] :
     x \in {Absent} \cup {[Ev(Base + 60, "b", "") EXCEPT !.fmt = f] : f \in OddStarts}}

InitParse ==
  /\ clock \in InitClocks
  /\ events \in ParseEvents
  /\ admins = <<1>>
  /\ user_ids \in {{1}, {1, 2}}
  /\ user_id_file = user_ids
  /\ notified_schedules_hour = {}
  /\ notified_schedules_day = {}
  /\ notified_schedules_week = {}
  /\ poll = Idle
  /\ ticks = 0
  /\ noti = NoNoti
  /\ cmds = 0
  /\ lastCmd = NoCmd
  /\ delivered = [x \in Chats \X EventIds \X Thresholds |-> 0]
  /\ dispatched = {}
  /\ skippedDue = {}
  /\ track = NoTrack
  /\ confirm_action = [c \in Chats |-> "none"]
  /\ confirm_task = [c \in Chats |-> 0]
  /\ tasks = <<>>
  /\ evalIn = 0
  /\ evalOut = {}
  /\ evalPc = "off"
  /\ notiStart = {}
  /\ notiLog = <<>>

NextParse ==
  \/ \E d \in 0 .. MaxProc : PollTick(d, TRUE)
  \/ \E ok \in BOOLEAN, pick \in Chats \cup {EndIter} : PollSendDone(ok, pick)
  \/ \E c \in Chats : start(c)

SpecParse == InitParse /\ [][NextParse]_vars

\* the step is the start of a tick
IsTickStart == ticks' = ticks + 1

\* event e has a resolved start, is listed and unmuted, and is in the window
\* of a threshold whose ledger does not hold its key, at the instant now
DueAt(e, now) ==
  /\ events[e].present
  /\ events[e].fmt \in {"dateTime", "date"}
  /\ events[e].start + 3600 > now
  /\ ~is_muted(events[e])
  /\ \E t \in Thresholds : /\ InWindow(t, events[e].start - now)
                           /\ KeyOfEvent(events, e) \notin Ledgers[t]

\* C19: an event whose start is absent or does not parse never gets a
\* fan-out, and it does not keep the others from theirs: a tick that finds
\* recipients and a due event with a resolved start begins a fan-out for such
\* an event.
C19_UnresolvedStartLeftOut ==
  [][/\ \A x \in dispatched' : events[x[1]].fmt \in {"dateTime", "date"}
     /\ (IsTickStart /\ user_ids # {} /\ \E e \in EventIds : DueAt(e, clock')) =>
          /\ poll'.pc = "send"
          /\ DueAt(poll'.items[poll'.i].id, clock')]_vars

(***************************************************************************)
(* The polling loop started with nobody subscribed, while event 1 is in    *)
(* the window of a threshold: the 1-week, the 1-day or the 3-hour one.     *)
(***************************************************************************)
EmptyClocks == {Base - WeekHi, Base - DayHi, Base - HourHi}

\* the state of the polling loop and its handlers before the first tick,
\* but for the ledgers, what was dispatched and the pending confirmations
PollRest(clocks, cals, users) ==
  /\ clock \in clocks
  /\ events \in cals
  /\ admins = <<1>>
  /\ user_ids \in users
  /\ user_id_file = user_ids
  /\ poll = Idle
  /\ ticks = 0
  /\ noti = NoNoti
  /\ cmds = 0
  /\ lastCmd = NoCmd
  /\ delivered = [x \in Chats \X EventIds \X Thresholds |-> 0]
  /\ skippedDue = {}
  /\ track = NoTrack
  /\ evalIn = 0
  /\ evalOut = {}
  /\ evalPc = "off"
  /\ notiStart = {}
  /\ notiLog = <<>>

\* bot_data holds no confirm_action_* and no confirm_task_* key
NoPending ==
  /\ confirm_action = [c \in Chats |-> "none"]
  /\ confirm_task = [c \in Chats |-> 0]
  /\ tasks = <<>>

\* the state after construction: the three ledgers are empty sets
PollInit(clocks, cals, users) ==
  /\ PollRest(clocks, cals, users)
  /\ NoPending
  /\ notified_schedules_hour = {}
  /\ notified_schedules_day = {}
  /\ notified_schedules_week = {}
  /\ dispatched = {}

InitEmpty == PollInit(EmptyClocks, InitEvents, {{}})

NextEmpty ==
  \/ \E d \in 0 .. MaxProc : PollTick(d, TRUE)
  \/ \E ok \in BOOLEAN, pick \in Chats \cup {EndIter} : PollSendDone(ok, pick)
  \/ \E c \in Chats : start(c)

SpecEmpty == InitEmpty /\ [][NextEmpty]_vars

\* C21: a tick that finds no recipient sends nothing, leaves the three
\* ledgers as they are and sleeps; and when the tick before found no
\* recipient while an event was due (the loop sleeps, nothing was dispatched
\* and the event is due at the instant that tick sampled) and a recipient has
\* registered since, the tick that starts now begins a fan-out for an event
\* that was due then.
C21_EmptyTickLeavesLedgers ==
  [][IsTickStart =>
       /\ user_ids = {} =>
            /\ UNCHANGED <<ledgerVars, delivered, dispatched>>
            /\ poll' = Idle
       /\ (/\ ticks >= 1
           /\ dispatched = {}
           /\ user_ids # {}
           /\ \E e \in EventIds : DueAt(e, clock)) =>
            /\ poll'.pc = "send"
            /\ DueAt(poll'.items[poll'.i].id, clock)]_vars

(***************************************************************************)
(* The polling loop at the start of each window of event 1, after the      *)
(* reminders of the windows before it fired or did not fire (nobody was    *)
(* subscribed then): the ledgers of the earlier thresholds hold the key of *)
(* event 1 or not.  The first tick samples the start of the 1-week or the  *)
(* 1-day window, or one second before the 3-hour window.                   *)
(***************************************************************************)
OneEvent == {[e \in EventIds |-> IF e = 1 THEN Ev(Base, "a", "") ELSE Absent]}

\* the thresholds whose window is over when the clock is at the start of the
\* window of t
Earlier(t) == {u \in Thresholds : u > t}

FiredBefore(fired) ==
  /\ notified_schedules_hour = {}
  /\ notified_schedules_day = IF 2 \in fired THEN {KeyOfEvent(events, 1)} ELSE {}
  /\ notified_schedules_week = IF 3 \in fired THEN {KeyOfEvent(events, 1)} ELSE {}
  /\ dispatched = {<<1, u>> : u \in fired}

InitLedger ==
  /\ PollRest(InitClocks, OneEvent, {{1}, {1, 2}})
  /\ NoPending
  /\ \E t \in Thresholds :
       /\ clock = CASE t = 3 -> Base - WeekHi
                    [] t = 2 -> Base - DayHi
                    [] t = 1 -> Base - HourHi - 1
       /\ \E fired \in SUBSET Earlier(t) : FiredBefore(fired)

NextLedger ==
  \/ \E d \in 0 .. MaxProc : PollTick(d, TRUE)
  \/ \E ok \in BOOLEAN, pick \in Chats \cup {EndIter} : PollSendDone(ok, pick)
  \/ \E c \in Chats : start(c)

SpecLedger == InitLedger /\ [][NextLedger]_vars

\* C22: a step that adds a key to the ledger of one threshold leaves the
\* other two ledgers as they are; a tick that samples an unmuted event inside
\* the window of a threshold whose ledger does not hold its key begins the
\* fan-out for it, whatever the other two ledgers hold; and an event that the
\* ticks have followed from above the 3-hour window to below it has had its
\* 3-hour fan-out, as it has had the 1-week and 1-day ones.
C22_LedgersIndependent ==
  [][/\ \A t \in Thresholds :
          Ledgers'[t] # Ledgers[t] =>
             \A u \in Thresholds \ {t} : Ledgers'[u] = Ledgers[u]
     /\ (IsTickStart /\ user_ids # {}) =>
          \A t \in Thresholds :
             (/\ InWindow(t, events[1].start - clock')
              /\ KeyOfEvent(events, 1) \notin Ledgers[t]) =>
                /\ poll'.pc = "send"
                /\ poll'.items[poll'.i].id = 1
                /\ poll'.th = t
     /\ \A e \in EventIds : track'[e] = "skipped" => <<e, 1>> \in dispatched']_vars

(***************************************************************************)
(* The schedule commands with their arguments as typed: context.args is a  *)
(* sequence of texts.  The texts of the model: numbers "0" .. "3" and "x"  *)
(* (not a number); dates "ahead" (a date after the start of every event    *)
(* of the model), "behind" (a date before every clock of the model) and    *)
(* "991301" (month 13); one time "0900"; summaries of one word.            *)
(***************************************************************************)
IntTexts == {"0", "1", "2", "3", "x"}
DateTexts == {"ahead", "behind", "991301"}

\* int(s) raises ValueError
IntRaises(s) == s \notin {"0", "1", "2", "3"}

\* int(s)
IntOf(s) ==
  CASE s = "0" -> 0
    [] s = "1" -> 1
    [] s = "2" -> 2
    [] s = "3" -> 3

\* datetime.strptime(f"{s_date} {s_time}", "%y%m%d %H%M") raises ValueError
StrptimeRaises(d, t) == d = "991301"

parse_yyMMdd_HHmm(d, t) ==
  CASE d = "ahead" -> Base + 120
    [] d = "behind" -> Base - WeekHi - 86400

\* a variant that takes no date for a past one
IsPast_never(dt, now) == FALSE

\* "if dt < datetime.now(KST)"
IsPast(dt, now) == dt < now

\* "if 0 <= idx < len(items)"
InList(idx, items) == 0 <= idx /\ idx < Len(items)

\* events().insert: the calendar gives the event an id of its own
create_event(cal, id, dt, summary, mute) ==
  [cal EXCEPT ![id] = Ev(dt, summary, IF mute THEN "v" ELSE "")]

\* the reply to a command that has too few arguments
CmdUsage(cmd, c) ==
  /\ HandlerFree
  /\ cmds' = cmds + 1
  /\ lastCmd' = Reply(cmd, c, "usage")
  /\ UNCHANGED <<clock, events, user_ids, user_id_file, admins, ledgerVars, poll,
                 ticks, noti, histVars>>
  /\ UNCHANGED <<confVars, evalVars, notiHist>>

\* /add YYMMDD HHMM summary; raises: the calendar call raises
add_schedule(c, args, raises) ==
  /\ HandlerFree
  /\ cmds' = cmds + 1
  /\ IF ~IsAdmin(c) THEN lastCmd' = Reply("add", c, "not_admin") /\ events' = events
     ELSE IF Len(args) < 3 THEN lastCmd' = Reply("add", c, "usage") /\ events' = events
     ELSE IF StrptimeRaises(args[1], args[2])
          THEN lastCmd' = Reply("add", c, "error") /\ events' = events
     ELSE LET dt == parse_yyMMdd_HHmm(args[1], args[2])
              summary == Strip(args[3])
          IN IF IsPast(dt, clock)
             THEN lastCmd' = Reply("add", c, "past") /\ events' = events
             ELSE IF raises
             THEN lastCmd' = Reply("add", c, "error") /\ events' = events
             ELSE \E id \in {e \in EventIds : ~events[e].present} :
                    /\ events' = create_event(events, id, dt, summary, FALSE)
                    /\ lastCmd' = Answer("add", c, "ok", id, TRUE, 0, 0)
  /\ UNCHANGED <<clock, user_ids, user_id_file, admins, ledgerVars, poll, ticks,
                 noti, histVars>>
  /\ UNCHANGED <<confVars, evalVars, notiHist>>

\* /del n; raises: a calendar call raises
delete_schedule(c, args, raises) ==
  /\ HandlerFree
  /\ cmds' = cmds + 1
  /\ IF ~IsAdmin(c) THEN lastCmd' = Reply("del", c, "not_admin") /\ events' = events
     ELSE IF Len(args) = 0 \/ IntRaises(args[1]) \/ raises
          THEN lastCmd' = Reply("del", c, "error") /\ events' = events
     ELSE LET idx == IntOf(args[1]) - 1
              items == _sorted_upcoming_items(events, clock)
          IN IF InList(idx, items)
             THEN /\ events' = delete_event(events, items[idx + 1].id)
                  /\ lastCmd' = Answer("del", c, "ok", items[idx + 1].id, TRUE, 0, 0)
             ELSE lastCmd' = Reply("del", c, "bad_index") /\ events' = events
  /\ track' = IF lastCmd'.res = "ok" THEN [track EXCEPT ![lastCmd'.id] = "none"] ELSE track
  /\ UNCHANGED <<clock, user_ids, user_id_file, admins, ledgerVars, poll, ticks,
                 noti, delivered, dispatched, skippedDue>>
  /\ UNCHANGED <<confVars, evalVars, notiHist>>

\* /edit with its arguments as typed: the number and the date are parsed
\* before the list is read
EditArgs(c, args) ==
  IF Len(args) < 4
  THEN IF IsAdmin(c) THEN CmdUsage("edit", c)
       ELSE edit_schedule(c, 0, 0, "", TRUE)
  ELSE IF IntRaises(args[1]) \/ StrptimeRaises(args[2], args[3])
  THEN edit_schedule(c, 0, 0, "", TRUE)
  ELSE edit_schedule(c, IntOf(args[1]), parse_yyMMdd_HHmm(args[2], args[3]),
                     Strip(args[4]), FALSE)

\* /mute and /unmute with their arguments as typed
MuteArgs(cmd, mute, c, args) ==
  IF Len(args) = 0 \/ IntRaises(args[1])
  THEN SetMute(cmd, mute, c, 0, TRUE)
  ELSE SetMute(cmd, mute, c, IntOf(args[1]), FALSE)

AddArgs == {<<>>, <<"ahead", "0900">>} \cup {<<d, "0900", "b">> : d \in DateTexts}
EditArgSet ==
  {<<"1", "ahead", "0900">>}
  \cup {<<n, d, "0900", "b">> : n \in IntTexts, d \in DateTexts}
IndexArgs == {<<>>} \cup {<<n>> : n \in IntTexts}

\* the state when a schedule command arrives: the 1-week reminder of event 1
\* fired or not, and chat 1 has a /delall waiting for its /ok or not
InitCmd ==
  /\ PollRest(InitClocks, InitEvents, {{1}})
  /\ \E fired \in {{}, {3}} :
       /\ notified_schedules_hour = {}
       /\ notified_schedules_day = {}
       /\ notified_schedules_week = IF 3 \in fired THEN {KeyOfEvent(events, 1)} ELSE {}
       /\ dispatched = {<<1, u>> : u \in fired}
  /\ \/ NoPending
     \/ /\ confirm_action = [c \in Chats |-> IF c = 1 THEN "delall" ELSE "none"]
        /\ confirm_task = [c \in Chats |-> IF c = 1 THEN 1 ELSE 0]
        /\ tasks = <<[chat |-> 1, deadline |-> clock + ConfirmTimeout, st |-> "sleeping"]>>

NextCmd ==
  \/ \E c \in Chats, args \in AddArgs, raises \in BOOLEAN : add_schedule(c, args, raises)
  \/ \E c \in Chats, args \in EditArgSet : EditArgs(c, args)
  \/ \E c \in Chats, args \in IndexArgs, raises \in BOOLEAN : delete_schedule(c, args, raises)
  \/ \E c \in Chats, args \in IndexArgs : MuteArgs("mute", TRUE, c, args)
  \/ \E c \in Chats, args \in IndexArgs : MuteArgs("unmute", FALSE, c, args)

SpecCmd == InitCmd /\ [][NextCmd]_vars

\* the events of the listing a command numbers, at the time of the step
ListLen == Len(_sorted_upcoming_items(events, clock))

\* the arguments do not hold a number of the current upcoming list
BadIndex(args, k) ==
  \/ Len(args) < k
  \/ IntRaises(args[k])
  \/ ~(1 <= IntOf(args[k]) /\ IntOf(args[k]) <= ListLen)

\* the arguments do not hold a date that parses and is not in the past
BadDate(args, k) ==
  \/ Len(args) < k + 1
  \/ StrptimeRaises(args[k], args[k + 1])
  \/ parse_yyMMdd_HHmm(args[k], args[k + 1]) < clock

\* what a rejected command must leave as it is
Untouched ==
  UNCHANGED <<events, ledgerVars, user_ids, user_id_file, confVars>>

\* C23: /add or /edit with too few arguments, a date that does not parse or a
\* date in the past, and /edit, /del, /mute or /unmute with no number, a text
\* that is no number or a number outside the current upcoming list, leave the
\* calendar, the three ledgers, the recipient set and the pending
\* confirmations as they are.
C23_RejectedMutatesNothing ==
  [][\A c \in Chats :
       /\ \A args \in AddArgs, raises \in BOOLEAN :
             ((Len(args) < 3 \/ BadDate(args, 1)) /\ add_schedule(c, args, raises))
               => Untouched
       /\ \A args \in EditArgSet :
             ((Len(args) < 4 \/ BadIndex(args, 1) \/ BadDate(args, 2)) /\ EditArgs(c, args))
               => Untouched
       /\ \A args \in IndexArgs, raises \in BOOLEAN :
             (BadIndex(args, 1) /\ delete_schedule(c, args, raises)) => Untouched
       /\ \A args \in IndexArgs :
             (BadIndex(args, 1) /\ (\/ MuteArgs("mute", TRUE, c, args)
                                    \/ MuteArgs("unmute", FALSE, c, args)))
               => Untouched]_vars

\* an administrator's command was turned down for a past date or for a number
\* outside the list while a /delall was pending, the 1-week key of event 1 was
\* recorded and an event was listed
C23_Witness ==
  /\ lastCmd.cmd \in {"add", "edit", "del", "mute", "unmute"}
  /\ lastCmd.res \in {"past", "bad_index"}
  /\ confirm_action[1] = "delall"
  /\ notified_schedules_week # {}
  /\ events[1].present

(***************************************************************************)
(* /mute and /unmute over events whose private metadata holds a mute value *)
(* in several spellings and other entries besides it.                      *)
(***************************************************************************)
MuteTexts == {"", "v", " V ", "TRUE", "no"}
OtherEntries == {{}, {<<"tag", "x">>}, {<<"tag", "x">>, <<"src", "y">>}}

MuteEvents ==
  {[e \in EventIds |-> IF e = 1 THEN [Ev(Base, "a", u) EXCEPT !.other = o] ELSE x] :
     u \in MuteTexts, o \in OtherEntries,
     x \in {Absent, [Ev(Base + 60, "b", "v") EXCEPT !.other = {<<"tag", "z">>}]}}

InitMute == PollInit(InitClocks, MuteEvents, {{1}})

NextMute ==
  \/ \E c \in Chats, n \in 0 .. 3, raises \in BOOLEAN : mute_schedule(c, n, raises)
  \/ \E c \in Chats, n \in 0 .. 3, raises \in BOOLEAN : unmute_schedule(c, n, raises)

SpecMute == InitMute /\ [][NextMute]_vars

\* the mute value b applied once to event ev
MuteOnce(ev, b) == PatchMute(ev, set_mute_on_body(ev, b))

\* C24: a /mute or /unmute that patches an event leaves is_muted of that
\* event equal to the value asked for and every other private entry, the
\* start, the summary and every other event as they were; and for every event
\* of the calendar and either value, applying the value twice gives the event
\* that applying it once gives.
C24_MuteWritesOnlyMute ==
  [][/\ \A c \in Chats, b \in BOOLEAN :
          (/\ IsCmdStep(IF b THEN "mute" ELSE "unmute", c)
           /\ lastCmd'.res = "ok") =>
             LET id == lastCmd'.id
             IN /\ is_muted(events'[id]) = b
                /\ events'[id] = [events[id] EXCEPT !.mute = events'[id].mute]
                /\ events'[id] = MuteOnce(events[id], b)
                /\ \A e \in EventIds \ {id} : events'[e] = events[e]
     /\ \A e \in EventIds, b \in BOOLEAN :
          /\ MuteOnce(MuteOnce(events[e], b), b) = MuteOnce(events[e], b)
          /\ MuteOnce(MuteOnce(events'[e], b), b) = MuteOnce(events'[e], b)]_vars

\* a /mute has patched an event that holds other private entries and another
\* spelling of the mute value before
C24_Witness ==
  /\ lastCmd.cmd = "mute"
  /\ lastCmd.res = "ok"
  /\ lastCmd.id = 1
  /\ events[1].mute = "v"
  /\ events[1].other = {<<"tag", "x">>, <<"src", "y">>}
  /\ events[1].summary = "a"
  /\ events[2].present

(***************************************************************************)
(* The confirmation protocol from the state in which an administrator's    *)
(* /delall or /delhistory has just been accepted (at time Base), with      *)
(* /admindel among the commands that follow.  cmds counts the commands     *)
(* handled after that state.                                               *)
(***************************************************************************)
\* /admindel n; raises: the argument is missing or is no number
admin_delete_command(c, n, raises) ==
  /\ ConfFree
  /\ cmds' = cmds + 1
  /\ LET idx == n - 1
     IN IF ~IsAdmin(c) THEN lastCmd' = Reply("admindel", c, "not_admin") /\ admins' = admins
        ELSE IF raises THEN lastCmd' = Reply("admindel", c, "error") /\ admins' = admins
        ELSE IF 0 <= idx /\ idx < Len(admins)
        THEN /\ admins' = SubSeq(admins, 1, idx) \o SubSeq(admins, idx + 2, Len(admins))
             /\ lastCmd' = Answer("admindel", c, "ok", admins[idx + 1], TRUE, 0, 0)
        ELSE lastCmd' = Reply("admindel", c, "bad_index") /\ admins' = admins
  /\ UNCHANGED <<clock, events, user_ids, user_id_file, ledgerVars, poll, ticks,
                 noti, histVars, confVars, evalVars, notiHist>>

PendingEvents ==
  {[e \in EventIds |-> IF e = 1 THEN x ELSE Ev(Base + 7200, "a", "")] :
     x \in {Absent, Ev(Base - 7200, "a", "")}}

InitPending ==
  /\ clock = Base
  /\ events \in PendingEvents
  /\ admins \in {<<1>>, <<1, 2>>}
  /\ PollFrozen
  /\ \E c \in Chats, kind \in {"delall", "delhistory"} :
       /\ IsAdmin(c)
       /\ confirm_action = [x \in Chats |-> IF x = c THEN kind ELSE "none"]
       /\ confirm_task = [x \in Chats |-> IF x = c THEN 1 ELSE 0]
       /\ tasks = <<[chat |-> c, deadline |-> clock + ConfirmTimeout, st |-> "sleeping"]>>
  /\ evalIn = 0
  /\ evalOut = {}
  /\ evalPc = "off"

NextPending ==
  \/ \E c \in Chats : delall_confirm_prompt(c)
  \/ \E c \in Chats : delhistory_confirm_prompt(c)
  \/ \E c \in Chats, n \in 0 .. 2, raises \in BOOLEAN : admin_delete_command(c, n, raises)
  \/ \E k \in 1 .. Len(tasks), sendOk \in BOOLEAN : confirm_timeout(k, sendOk)
  \/ \E c \in Chats, out \in [EventIds -> DelOutcomes] : ok_handler(c, FALSE, out)
  \/ Advance

SpecPending == InitPending /\ [][NextPending]_vars

\* C25: an /ok from a chat that is not in the administrator list when the
\* /ok is handled deletes nothing.
C25_OkNeedsAdmin ==
  [][\A c \in Chats : (IsCmdStep("ok", c) /\ ~IsAdmin(c)) => events' = events]_vars

\* the step is the acceptance of a /delall or /delhistory of chat c
IsPromptStep(c) ==
  /\ IsCmdStep("delall", c) \/ IsCmdStep("delhistory", c)
  /\ lastCmd'.res = "prompt"

\* C26: a timer acts only on the confirmation it was started for.  A timer
\* that runs does so after its own 30 seconds, and when it clears a pending
\* confirmation or sends the cancellation notice it is the timer recorded
\* for that confirmation; an accepted /delall or /delhistory records a new
\* timer due 30 seconds later, and no older timer of the chat is still
\* asleep then; and a pending confirmation is cleared only by an /ok of its
\* chat or by its own timer at or after that timer's deadline.
C26_TimerOwnsItsConfirmation ==
  [][/\ \A k \in 1 .. Len(tasks) :
          IsTimerStep(k) =>
             LET c == tasks[k].chat
             IN /\ clock >= tasks[k].deadline
                /\ (\/ confirm_action' # confirm_action
                    \/ tasks'[k].st \in {"noticed", "notice_failed"}) =>
                     /\ confirm_task[c] = k
                     /\ \A x \in Chats \ {c} : confirm_action'[x] = confirm_action[x]
     /\ \A c \in Chats :
          /\ IsPromptStep(c) =>
               /\ confirm_task'[c] = Len(tasks')
               /\ Len(tasks') = Len(tasks) + 1
               /\ tasks'[Len(tasks')].chat = c
               /\ tasks'[Len(tasks')].deadline = clock + ConfirmTimeout
               /\ tasks'[Len(tasks')].st = "sleeping"
               /\ \A k \in 1 .. Len(tasks) :
                    tasks[k].chat = c => tasks[k].st # "sleeping"
          /\ (confirm_action[c] # "none" /\ confirm_action'[c] # confirm_action[c]) =>
               \/ IsCmdStep("ok", c)
               \/ /\ confirm_task[c] \in 1 .. Len(tasks)
                  /\ IsTimerStep(confirm_task[c])
                  /\ clock >= tasks[confirm_task[c]].deadline]_vars

\* the chat confirmed with /ok and asked again within 30 seconds of its first
\* command; the 30 seconds of the first timer are over, the second
\* confirmation is pending and its timer asleep
C26_Witness ==
  /\ Len(tasks) = 2
  /\ tasks[1].chat = tasks[2].chat
  /\ tasks[1].st = "cancelled"
  /\ tasks[2].st = "sleeping"
  /\ tasks[2].deadline < tasks[1].deadline + ConfirmTimeout
  /\ clock >= tasks[1].deadline
  /\ clock < tasks[2].deadline
  /\ confirm_action[tasks[2].chat] # "none"
  /\ confirm_task[tasks[2].chat] = 2

=============================================================================
